---- MODULE Spec2Model ----
(***************************************************************************)
(* Model of the now-playing Worker (src/src/index.ts): the fetch handler,  *)
(* the Spotify adapter (Service A), the Apple Music adapter with its       *)
(* liveness inference over APPLE_STATE_CACHE (Service B), the merge of the *)
(* two results and the RESULT_CACHE policy.                                *)
(*                                                                         *)
(* Encodings.  An optional JavaScript value is a tuple: <<>> is undefined, *)
(* <<v>> is the value v.  An ISO-8601 string made by toISOString() is the  *)
(* tuple <<ms>>, and the empty tuple is the missing/empty string.  A       *)
(* JavaScript number that may be NaN is a record [nan, v].  A JSON text is *)
(* the function from the keys it holds to their values (undefined members  *)
(* are dropped by JSON.stringify).  Times are milliseconds.                *)
(***************************************************************************)
EXTENDS Integers, Sequences, FiniteSets, TLC

(* ------------------------------ bounds -------------------------------- *)

\* Requests the Worker receives; any of them may overlap.
NumRequests == 2

\* The clock advances in steps of TickMs, at most MaxTicks times.
TickMs == 60000

MaxTicks == 2

(* ------------------------- program constants -------------------------- *)

DEFAULT_CACHE_TTL == 120

MAX_CACHE_TTL == 600

MILLISECONDS_PER_SECOND == 1000

HTTP_NO_CONTENT == 204

HTTP_OK == 200

HTTP_UNAUTHORIZED == 401

Requests == 1 .. NumRequests

StartMs == TickMs

(* --------------------------- JavaScript values ------------------------ *)

Undefined == <<>>

Some(v) == <<v>>

IsDefined(o) == o # <<>>

\* A number that may be NaN.
Num(v) == [nan |-> FALSE, v |-> v]

NaN == [nan |-> TRUE, v |-> 0]

\* x >= y and x > y and x < y of JavaScript: false when either side is NaN.
JsGe(x, y) == ~x.nan /\ ~y.nan /\ x.v >= y.v

JsGt(x, y) == ~x.nan /\ ~y.nan /\ x.v > y.v

JsLt(x, y) == ~x.nan /\ ~y.nan /\ x.v < y.v

\* a - b where b may be undefined (a number minus undefined is NaN).
JsMinus(a, optB) == IF IsDefined(optB) THEN Num(a - optB[1]) ELSE NaN

\* new Date(ms).toISOString(): the ISO string of the instant ms.
ToISOString(ms) == <<ms>>

\* new Date(str).getTime(): the instant of an ISO string, NaN for any other.
DateGetTime(str) == IF Len(str) = 1 THEN Num(str[1]) ELSE NaN

Min(a, b) == IF a <= b THEN a ELSE b

(* ----------------------------- ApiResponse ---------------------------- *)

OptionalKeys == {"source", "duration", "title", "error"}

AllKeys == {"success", "isPlaying", "timeStamp"} \cup OptionalKeys

\* A failure ApiResponse built at instant t.  The text of the error is not
\* kept: every message is the one string "error".
Failure(t) ==
  [success |-> FALSE, isPlaying |-> FALSE, timeStamp |-> ToISOString(t),
   source |-> Undefined, duration |-> Undefined, title |-> Undefined,
   error |-> Some("error")]

\* JSON.stringify(obj): undefined members are left out.
JsonStringify(obj) ==
  [k \in {x \in AllKeys : x \in OptionalKeys => IsDefined(obj[x])} |-> obj[k]]

\* JSON.parse(text) read as an ApiResponse: a missing member reads undefined.
JsonParse(text) ==
  [k \in AllKeys |-> IF k \in DOMAIN text THEN text[k] ELSE Undefined]

(* ------------------------- upstream responses ------------------------- *)

\* What the Spotify token endpoint can answer: a JSON body with an
\* access_token, a JSON body without one, or no JSON at all (the fetch or
\* response.json() throws).
TokenResponses == {"token", "no_token", "exception"}

\* Tracks as Spotify describes them (item.name, item.duration_ms).
SpotifyTracks ==
  { [name |-> Some("SongA"), duration_ms |-> Some(180000)],
    [name |-> Undefined, duration_ms |-> Undefined] }

\* Instants Spotify reports (song.timestamp, played_at).
UpstreamTimes == {StartMs}

NoSpotifyTrack == [name |-> Undefined, duration_ms |-> Undefined]

\* Answers of the currently-playing endpoint: its HTTP status, and for a 200
\* the body (or "malformed": a body the handler cannot walk, or a transport
\* exception, both of which throw).
NowPlayingResponses ==
  { [status |-> s, body |-> "none", track |-> NoSpotifyTrack,
     is_playing |-> FALSE, timestamp |-> 0] : s \in {HTTP_NO_CONTENT, HTTP_UNAUTHORIZED} }
  \cup
  { [status |-> HTTP_OK, body |-> "malformed", track |-> NoSpotifyTrack,
     is_playing |-> FALSE, timestamp |-> 0] }
  \cup
  { [status |-> HTTP_OK, body |-> "song", track |-> tr, is_playing |-> p,
     timestamp |-> t] : tr \in SpotifyTracks, p \in BOOLEAN, t \in UpstreamTimes }

NoRecentResponse ==
  [status |-> HTTP_UNAUTHORIZED, body |-> "none", track |-> NoSpotifyTrack, played_at |-> 0]

\* Answers of the recently-played endpoint.
RecentResponses ==
  { NoRecentResponse,
    [status |-> HTTP_OK, body |-> "malformed", track |-> NoSpotifyTrack, played_at |-> 0] }
  \cup
  { [status |-> HTTP_OK, body |-> "songs", track |-> tr, played_at |-> t] :
      tr \in SpotifyTracks, t \in UpstreamTimes }

\* Tracks as Apple Music describes them (id, attributes.name,
\* attributes.durationInMillis).
AppleTracks ==
  { [id |-> "T1", name |-> Some("Song1"), durationInMillis |-> Some(120000)],
    [id |-> "T2", name |-> Some("Song2"), durationInMillis |-> Some(900000)] }

NoAppleTrack == [id |-> "", name |-> Undefined, durationInMillis |-> Undefined]

\* Answers of Apple's recent-played endpoint: the fetch throws
\* ("exception"), or it answers with a status and a body: none, an error
\* text, a body whose walk throws ("malformed"), or the most recent song.
AppleResponses ==
  { [status |-> 0, body |-> "exception", song |-> NoAppleTrack],
    [status |-> 500, body |-> "text", song |-> NoAppleTrack],
    [status |-> HTTP_NO_CONTENT, body |-> "none", song |-> NoAppleTrack],
    [status |-> HTTP_OK, body |-> "malformed", song |-> NoAppleTrack] }
  \cup
  { [status |-> HTTP_OK, body |-> "data", song |-> s] : s \in AppleTracks }

\* response.ok: a status from 200 to 299.
ResponseOk(status) == 200 <= status /\ status <= 299

(* ------------------------ results of async calls ---------------------- *)

Return(v) == [thrown |-> FALSE, val |-> Some(v)]

Throw == [thrown |-> TRUE, val |-> Undefined]

(* --------------------------- Spotify adapter -------------------------- *)

\* getAccessToken: data.access_token, undefined when the body has none;
\* a fetch or response.json() that throws is not caught.
getAccessToken(resp) ==
  CASE resp = "token" -> Return(Some("access"))
    [] resp = "no_token" -> Return(Undefined)
    [] OTHER -> Throw

\* getNowPlaying at instant t.
getNowPlaying(resp, t) ==
  IF resp.status = HTTP_NO_CONTENT
    THEN Return([success |-> TRUE, isPlaying |-> FALSE,
                 timeStamp |-> ToISOString(0), source |-> Undefined,
                 duration |-> Undefined, title |-> Undefined,
                 error |-> Undefined])
  ELSE IF ~ResponseOk(resp.status)
    THEN Return(Failure(t))
  ELSE IF resp.body # "song"
    THEN Throw
  ELSE Return([success |-> TRUE, source |-> Some("Spotify"),
               timeStamp |-> ToISOString(resp.timestamp),
               duration |-> resp.track.duration_ms,
               isPlaying |-> resp.is_playing,
               title |-> resp.track.name, error |-> Undefined])

\* getSpotifyRecentlyPlayed at instant t.
getSpotifyRecentlyPlayed(resp, t) ==
  IF ~ResponseOk(resp.status)
    THEN Return(Failure(t))
  ELSE IF resp.body # "songs"
    THEN Throw
  ELSE Return([success |-> TRUE, source |-> Some("Spotify"),
               timeStamp |-> ToISOString(resp.played_at),
               duration |-> resp.track.duration_ms,
               isPlaying |-> FALSE,
               title |-> resp.track.name, error |-> Undefined])

\* Mutant of getSpotifyData: the result of getNowPlaying is returned
\* without the test of its title.
getSpotifyData_NoTitleCheck(tok1, np, tok2, rp, t) ==
  LET accessToken == getAccessToken(tok1)
      spotifynowPlaying == getNowPlaying(np, t)
  IN  IF accessToken.thrown THEN Throw
      ELSE IF ~IsDefined(accessToken.val[1])
        THEN Return(Failure(t))
      ELSE spotifynowPlaying

\* Mutant of getSpotifyData: the 204 state of getNowPlaying is returned as
\* it is, without the recently-played query.
getSpotifyData_ReturnsEmpty(tok1, np, tok2, rp, t) ==
  LET accessToken == getAccessToken(tok1)
      spotifynowPlaying == getNowPlaying(np, t)
      newAccessToken == getAccessToken(tok2)
  IN  IF accessToken.thrown THEN Throw
      ELSE IF ~IsDefined(accessToken.val[1])
        THEN Return(Failure(t))
      ELSE IF spotifynowPlaying.thrown THEN Throw
      ELSE IF IsDefined(spotifynowPlaying.val[1].title) \/ np.status = HTTP_NO_CONTENT
        THEN spotifynowPlaying
      ELSE IF newAccessToken.thrown THEN Throw
      ELSE IF ~IsDefined(newAccessToken.val[1])
        THEN Return(Failure(t))
      ELSE getSpotifyRecentlyPlayed(rp, t)

\* getSpotifyData at instant t, given what the four upstream calls answer
\* (the later ones are made only when the earlier ones lead to them).
getSpotifyData(tok1, np, tok2, rp, t) ==
  LET accessToken == getAccessToken(tok1)
      spotifynowPlaying == getNowPlaying(np, t)
      newAccessToken == getAccessToken(tok2)
  IN  IF accessToken.thrown THEN Throw
      ELSE IF ~IsDefined(accessToken.val[1])
        THEN Return(Failure(t))
      ELSE IF spotifynowPlaying.thrown THEN Throw
      ELSE IF IsDefined(spotifynowPlaying.val[1].title)
        THEN spotifynowPlaying
      ELSE IF newAccessToken.thrown THEN Throw
      ELSE IF ~IsDefined(newAccessToken.val[1])
        THEN Return(Failure(t))
      ELSE getSpotifyRecentlyPlayed(rp, t)

\* Whether getSpotifyData goes on to its second token and the
\* recently-played query: the first token is there and now-playing returned
\* no title.
FallsBack(tok1, np, t) ==
  /\ ~getAccessToken(tok1).thrown
  /\ IsDefined(getAccessToken(tok1).val[1])
  /\ ~getNowPlaying(np, t).thrown
  /\ ~IsDefined(getNowPlaying(np, t).val[1].title)

\* The instants of the clock.
AllInstants == { StartMs + k * TickMs : k \in 0 .. MaxTicks }

\* One run of getSpotifyData: its result, and whether the
\* currently-playing endpoint was queried and answered 204.
SpotifyRun(tok1, np, tok2, rp, t) ==
  LET res == getSpotifyData(tok1, np, tok2, rp, t)
  IN  [thrown |-> res.thrown, val |-> res.val,
       nothingPlaying |-> tok1 = "token" /\ np.status = HTTP_NO_CONTENT]

\* Every run getSpotifyData can make at each instant, over all the answers
\* of the upstream calls it makes.
SpotifyResults ==
  [ t \in AllInstants |->
      UNION { UNION { UNION { { SpotifyRun(tok1, np, tok2, rp, t) :
        rp \in IF FallsBack(tok1, np, t) /\ tok2 = "token"
                 THEN RecentResponses ELSE {NoRecentResponse} } :
        tok2 \in IF FallsBack(tok1, np, t) THEN TokenResponses ELSE {"token"} } :
        np \in NowPlayingResponses } :
        tok1 \in TokenResponses } ]

(* ------------------------- Apple Music adapter ------------------------ *)

\* getAppleDeveloperToken: the signed token, or null when signing throws.
getAppleDeveloperToken(keyOk) == IF keyOk THEN Some("jwt") ELSE Undefined

\* formatAppleSong(song, isLive, timestamp).
formatAppleSong(song, isLive, timestamp) ==
  [success |-> TRUE, source |-> Some("Apple Music"),
   timeStamp |-> ToISOString(timestamp), isPlaying |-> isLive,
   duration |-> song.durationInMillis, title |-> song.name,
   error |-> Undefined]

\* JSON.stringify / JSON.parse of an AppleCacheState {songId, cachedAt}.
StateStringify(st) == <<st.songId, st.cachedAt>>

StateParse(text) == [songId |-> text[1], cachedAt |-> text[2]]

\* Mutants of IsLive: the comparison reversed; the boundary counted as live.
IsLive_Reversed(cachedState, song, t) ==
  JsLt(Num(cachedState.cachedAt), JsMinus(t, song.durationInMillis))

IsLive_Inclusive(cachedState, song, t) ==
  JsGe(Num(cachedState.cachedAt), JsMinus(t, song.durationInMillis))

\* The liveness test of one song against the stored state at instant t:
\* cachedState.cachedAt > Date.now() - durationInMillis.
IsLive(cachedState, song, t) ==
  JsGt(Num(cachedState.cachedAt), JsMinus(t, song.durationInMillis))

\* Mutant of AppleDecide: the stored songId is not compared, every fetched
\* song is taken for a new play.
AppleDecide_AlwaysPut(keyOk, userTokenSet, resp, stored, t) ==
  IF ~IsDefined(getAppleDeveloperToken(keyOk)) \/ ~userTokenSet
       \/ resp.body \in {"exception", "none", "malformed"}
       \/ resp.status > HTTP_NO_CONTENT
    THEN [next |-> "return", newState |-> Undefined, song |-> NoAppleTrack,
          val |-> Some(Failure(t))]
  ELSE [next |-> "put", song |-> resp.song, val |-> Undefined,
        newState |-> Some([songId |-> resp.song.id, cachedAt |-> t])]

\* getAppleMusicData up to its first write: the tokens, the fetch, the read
\* of APPLE_STATE_CACHE (stored: the value the get returns) and the branch
\* taken at instant t.  Either the adapter's result, or the state it is
\* about to put.
AppleDecide(keyOk, userTokenSet, resp, stored, t) ==
  IF ~IsDefined(getAppleDeveloperToken(keyOk)) \/ ~userTokenSet
    THEN [next |-> "return", newState |-> Undefined, song |-> NoAppleTrack,
          val |-> Some(Failure(t))]
  ELSE IF resp.body = "exception"
    THEN [next |-> "return", newState |-> Undefined, song |-> NoAppleTrack,
          val |-> Some(Failure(t))]
  ELSE IF resp.status > HTTP_NO_CONTENT \/ resp.body = "none"
    THEN [next |-> "return", newState |-> Undefined, song |-> NoAppleTrack,
          val |-> Some(Failure(t))]
  ELSE IF resp.body = "malformed"
    THEN [next |-> "return", newState |-> Undefined, song |-> NoAppleTrack,
          val |-> Some(Failure(t))]
  ELSE IF IsDefined(stored) /\ StateParse(stored[1]).songId = resp.song.id
    THEN [next |-> "return", newState |-> Undefined, song |-> resp.song,
          val |-> Some(formatAppleSong(resp.song,
                         IsLive(StateParse(stored[1]), resp.song, t),
                         StateParse(stored[1]).cachedAt))]
  ELSE [next |-> "put", song |-> resp.song, val |-> Undefined,
        newState |-> Some([songId |-> resp.song.id, cachedAt |-> t])]

(* ------------------------------ the merge ----------------------------- *)

\* spotify.timeStamp ? new Date(spotify.timeStamp).getTime() : 0
TimeOf(r) == IF r.timeStamp # <<>> THEN DateGetTime(r.timeStamp) ELSE Num(0)

\* Mutants of Merge: Apple asked first; no branch for a playing Apple; a
\* tie given to Apple.
Merge_AppleFirst(spotify, apple) ==
  IF apple.isPlaying THEN apple
  ELSE IF spotify.isPlaying THEN spotify
  ELSE IF JsGe(TimeOf(spotify), TimeOf(apple)) THEN spotify ELSE apple

Merge_NoAppleBranch(spotify, apple) ==
  IF spotify.isPlaying THEN spotify
  ELSE IF JsGe(TimeOf(spotify), TimeOf(apple)) THEN spotify ELSE apple

Merge_TieToApple(spotify, apple) ==
  IF spotify.isPlaying THEN spotify
  ELSE IF apple.isPlaying THEN apple
  ELSE IF JsGt(TimeOf(spotify), TimeOf(apple)) THEN spotify ELSE apple

\* Lines 90-108 of fetch: the response chosen from the two results.
Merge(spotify, apple) ==
  IF spotify.isPlaying THEN spotify
  ELSE IF apple.isPlaying THEN apple
  ELSE IF JsGe(TimeOf(spotify), TimeOf(apple)) THEN spotify ELSE apple

\* Mutant of CacheTtl: the cap is forgotten.
CacheTtl_NoCap(responseData) ==
  IF IsDefined(responseData.duration)
    THEN responseData.duration[1] \div 1000
    ELSE DEFAULT_CACHE_TTL

\* The expirationTtl of the RESULT_CACHE put.
CacheTtl(responseData) ==
  IF IsDefined(responseData.duration)
    THEN Min(responseData.duration[1] \div 1000, MAX_CACHE_TTL)
    ELSE DEFAULT_CACHE_TTL

\* Mutant of KvGet: an expired entry is still returned.
KvGet_IgnoresExpiry(entry, t) ==
  IF IsDefined(entry) THEN Some(entry[1].value) ELSE Undefined

\* KV get at instant t of an entry put with an expirationTtl: null once
\* the entry has expired.
KvGet(entry, t) ==
  IF IsDefined(entry) /\ t < entry[1].expiresAt THEN Some(entry[1].value) ELSE Undefined

(* ------------------------------- state -------------------------------- *)

VARIABLES
  now,            \* Date.now()
  resultCache,    \* RESULT_CACHE[now_playing_result]: <<>> or <<[value, expiresAt]>>
  appleState,     \* APPLE_STATE_CACHE[last_apple_song]: <<>> or <<JSON text>>
  phase,          \* per request: "new" (not yet received), "running" (adapters awaited), "done"
  noCache,        \* per running request: whether it carried noCache=true
  startedAt,      \* per running request: the instant its adapters were started
  apple,          \* per request: where getAppleMusicData stands (pc), the song it
                  \* fetched, the state it puts (newState) and its result (val)
  pendingDelete,  \* per request: its RESULT_CACHE.delete is in flight (it is not awaited)
  pendingPut,     \* per request: the RESULT_CACHE.put handed to ctx.waitUntil, in flight
  response        \* the outcome of the request that ended in the last step, <<>> otherwise

vars == <<now, resultCache, appleState, phase, noCache, startedAt, apple,
          pendingDelete, pendingPut, response>>

AppleIdle == [pc |-> "idle", song |-> NoAppleTrack, newState |-> Undefined, val |-> Undefined]

\* The instants of the clock from a to b.
Instants(a, b) == { t \in AllInstants : a <= t /\ t <= b }

Init ==
  /\ now = StartMs
  /\ resultCache = Undefined
  /\ appleState = Undefined
  /\ phase = [r \in Requests |-> "new"]
  /\ noCache = [r \in Requests |-> FALSE]
  /\ startedAt = [r \in Requests |-> 0]
  /\ apple = [r \in Requests |-> AppleIdle]
  /\ pendingDelete = [r \in Requests |-> FALSE]
  /\ pendingPut = [r \in Requests |-> Undefined]
  /\ response = Undefined

(* ------------------------------ actions ------------------------------- *)

\* Time passes.
Tick ==
  /\ now < StartMs + MaxTicks * TickMs
  /\ now' = now + TickMs
  /\ response' = Undefined
  /\ UNCHANGED <<resultCache, appleState, phase, noCache, startedAt, apple,
                 pendingDelete, pendingPut>>

\* The response of a request served from the cache (lines 76-78).
HitResponse(r, cachedResult) ==
  Some([req |-> r, outcome |-> "response", status |-> HTTP_OK, cacheStatus |-> "HIT",
        noCache |-> FALSE, body |-> Some(JsonStringify(cachedResult)),
        spotify |-> Undefined, apple |-> Undefined, ttl |-> Undefined,
        nothingPlaying |-> FALSE])

\* The response of a request that ran the adapters (lines 120-122); ttl is
\* the expirationTtl of the put it scheduled, if any.  The response also
\* records the two results the merge was given and whether the
\* currently-playing endpoint answered 204 to this request.
MissResponse(r, bypass, sp, ap, responseData, ttl) ==
  Some([req |-> r, outcome |-> "response", status |-> HTTP_OK, cacheStatus |-> "MISS",
        noCache |-> bypass, body |-> Some(JsonStringify(responseData)),
        spotify |-> Some(sp.val[1]), apple |-> Some(ap), ttl |-> ttl,
        nothingPlaying |-> sp.nothingPlaying])

\* The handler rejects: Promise.all rejected with the adapter's exception.
ExceptionResponse(r, bypass) ==
  Some([req |-> r, outcome |-> "exception", status |-> 500, cacheStatus |-> "",
        noCache |-> bypass, body |-> Undefined,
        spotify |-> Undefined, apple |-> Undefined, ttl |-> Undefined,
        nothingPlaying |-> FALSE])

\* The adapters of request r are started (lines 82-88).
StartAdapters(r, bypass) ==
  /\ phase' = [phase EXCEPT ![r] = "running"]
  /\ noCache' = [noCache EXCEPT ![r] = bypass]
  /\ startedAt' = [startedAt EXCEPT ![r] = now]
  /\ apple' = [apple EXCEPT ![r].pc = "fetch"]
  /\ response' = Undefined

\* A request arrives (lines 66-88): with noCache=true the delete is issued
\* without being awaited; otherwise the cache is read and a hit is returned.
\* On a miss or a bypass both adapters are started.  Requests are numbered
\* in the order they arrive.
FetchBegin(r) ==
  /\ phase[r] = "new"
  /\ \A q \in Requests : q < r => phase[q] # "new"
  /\ \E param \in {"true", "null"} :
       IF param = "true"
         THEN /\ pendingDelete' = [pendingDelete EXCEPT ![r] = TRUE]
              /\ StartAdapters(r, TRUE)
         ELSE LET cachedResult == KvGet(resultCache, now)
              IN  IF IsDefined(cachedResult)
                    THEN /\ response' = HitResponse(r, JsonParse(cachedResult[1]))
                         /\ phase' = [phase EXCEPT ![r] = "done"]
                         /\ UNCHANGED <<noCache, startedAt, apple, pendingDelete>>
                    ELSE /\ StartAdapters(r, FALSE)
                         /\ UNCHANGED pendingDelete
  /\ UNCHANGED <<now, resultCache, appleState, pendingPut>>

\* The un-awaited RESULT_CACHE.delete of a bypass request takes effect.
DeleteLands(r) ==
  /\ pendingDelete[r]
  /\ pendingDelete' = [pendingDelete EXCEPT ![r] = FALSE]
  /\ resultCache' = Undefined
  /\ response' = Undefined
  /\ UNCHANGED <<now, appleState, phase, noCache, startedAt, apple, pendingPut>>

\* Mutant of CachePut: the put is made whatever the response.
CachePut_Always(responseData) ==
  Some([value |-> JsonStringify(responseData),
        expirationTtl |-> CacheTtl(responseData)])

\* The RESULT_CACHE.put of lines 110-118, when the response is a success.
CachePut(responseData) ==
  IF responseData.success
    THEN Some([value |-> JsonStringify(responseData),
               expirationTtl |-> CacheTtl(responseData)])
    ELSE Undefined

\* Lines 90-123 of fetch, run when Promise.all resolves with both results
\* (sp: the run of getSpotifyData, ap: Apple's result): the merge, the put
\* handed to ctx.waitUntil and the response.
Complete(r, sp, ap) ==
  LET responseData == Merge(sp.val[1], ap)
      put == CachePut(responseData)
  IN  /\ pendingPut' = [pendingPut EXCEPT ![r] = put]
      /\ response' = MissResponse(r, noCache[r], sp, ap, responseData,
                                  IF IsDefined(put) THEN Some(put[1].expirationTtl) ELSE Undefined)
      /\ phase' = [phase EXCEPT ![r] = "done"]
      /\ noCache' = [noCache EXCEPT ![r] = FALSE]
      /\ startedAt' = [startedAt EXCEPT ![r] = 0]
      /\ apple' = [apple EXCEPT ![r] = AppleIdle]

\* getSpotifyData ends now.  It touches no shared state, so its whole run is
\* one step.  When it throws, Promise.all rejects and the handler with it
\* (getAppleMusicData runs on); when it returns after Apple's result is in,
\* the handler completes.  (Its return before Apple's is part of
\* AppleReturns.)
SpotifyData(r) ==
  /\ phase[r] = "running"
  /\ \E res \in SpotifyResults[now] :
       IF res.thrown
         THEN /\ response' = ExceptionResponse(r, noCache[r])
              /\ phase' = [phase EXCEPT ![r] = "done"]
              /\ noCache' = [noCache EXCEPT ![r] = FALSE]
              /\ startedAt' = [startedAt EXCEPT ![r] = 0]
              /\ apple' = [apple EXCEPT ![r] = IF @.pc = "done" THEN AppleIdle ELSE @]
              /\ UNCHANGED pendingPut
         ELSE /\ apple[r].pc = "done"
              /\ Complete(r, res, apple[r].val[1])
  /\ UNCHANGED <<now, resultCache, appleState, pendingDelete>>

\* getAppleMusicData returns ap.  While the handler awaits Promise.all:
\* either getSpotifyData has returned already, at some instant since the
\* adapters were started, and the handler completes; or it has not, and
\* Apple's result waits for it.  After the handler has rejected, the result
\* is dropped.
AppleReturns(r, song, ap) ==
  IF phase[r] = "running"
    THEN \/ \E ts \in Instants(startedAt[r], now) :
            \E res \in SpotifyResults[ts] :
              /\ ~res.thrown
              /\ Complete(r, res, ap)
         \/ /\ apple' = [apple EXCEPT ![r].pc = "done", ![r].song = song,
                                        ![r].val = Some(ap)]
            /\ response' = Undefined
            /\ UNCHANGED <<phase, noCache, startedAt, pendingPut>>
    ELSE /\ apple' = [apple EXCEPT ![r] = AppleIdle]
         /\ response' = Undefined
         /\ UNCHANGED <<phase, noCache, startedAt, pendingPut>>

\* getAppleMusicData, lines 285-341: tokens, fetch, the read of the stored
\* state and the branch.  It returns, or goes on to the put.
AppleFetch(r) ==
  /\ apple[r].pc = "fetch"
  /\ \E d \in { AppleDecide(keyOk, userTokenSet, resp, appleState, now) :
                    keyOk \in BOOLEAN, userTokenSet \in BOOLEAN, resp \in AppleResponses } :
           IF d.next = "put"
             THEN /\ apple' = [apple EXCEPT ![r] =
                                 [pc |-> "put", song |-> d.song,
                                  newState |-> d.newState, val |-> Undefined]]
                  /\ response' = Undefined
                  /\ UNCHANGED <<phase, noCache, startedAt, pendingPut>>
             ELSE AppleReturns(r, d.song, d.val[1])
  /\ UNCHANGED <<now, resultCache, appleState, pendingDelete>>

\* getAppleMusicData, lines 342-343: the awaited put completes and the
\* result is built with a new reading of the clock.
ApplePut(r) ==
  /\ apple[r].pc = "put"
  /\ appleState' = Some(StateStringify(apple[r].newState[1]))
  /\ AppleReturns(r, apple[r].song, formatAppleSong(apple[r].song, TRUE, now))
  /\ UNCHANGED <<now, resultCache, pendingDelete>>

\* The RESULT_CACHE.put handed to ctx.waitUntil takes effect.
PutLands(r) ==
  /\ IsDefined(pendingPut[r])
  /\ resultCache' = Some([value |-> pendingPut[r][1].value,
                          expiresAt |-> now + pendingPut[r][1].expirationTtl * MILLISECONDS_PER_SECOND])
  /\ pendingPut' = [pendingPut EXCEPT ![r] = Undefined]
  /\ response' = Undefined
  /\ UNCHANGED <<now, appleState, phase, noCache, startedAt, apple, pendingDelete>>

Next ==
  \/ Tick
  \/ \E r \in Requests : FetchBegin(r)
  \/ \E r \in Requests : DeleteLands(r)
  \/ \E r \in Requests : SpotifyData(r)
  \/ \E r \in Requests : AppleFetch(r)
  \/ \E r \in Requests : ApplePut(r)
  \/ \E r \in Requests : PutLands(r)

Spec == Init /\ [][Next]_vars

(* ------------------------------ claims -------------------------------- *)

\* The response of the last step is that of a request that ran the merge.
Merged == IsDefined(response) /\ response[1].cacheStatus = "MISS"

\* The two results the merge was given and the answer it gave.
MergeA == response[1].spotify[1]

MergeB == response[1].apple[1]

MergeAnswer == response[1].body[1]

\* The instant of a result's observedAt as the spec reads it: the epoch
\* start when the timestamp is absent or unparseable.
ObservedAt(r) ==
  IF r.timeStamp # <<>> /\ ~DateGetTime(r.timeStamp).nan
    THEN DateGetTime(r.timeStamp).v ELSE 0

\* C1: whenever Spotify's result is playing, the merged answer is Spotify's
\* result, whatever Apple's result is (playing and more recent included).
C1_SpotifyPlayingWins ==
  (Merged /\ MergeA.isPlaying) => MergeAnswer = JsonStringify(MergeA)

\* C1 witness: both play, Apple's observedAt is the later one, and the
\* answer is Spotify's.
C1_Witness ==
  /\ Merged /\ MergeA.isPlaying /\ MergeB.isPlaying
  /\ ObservedAt(MergeB) > ObservedAt(MergeA)
  /\ MergeAnswer = JsonStringify(MergeA)
  /\ MergeAnswer # JsonStringify(MergeB)

\* C2: when neither result is playing, the merged answer is the one with
\* the strictly later observedAt, and Spotify's on a tie.
C2_MostRecentWins ==
  (Merged /\ ~MergeA.isPlaying /\ ~MergeB.isPlaying) =>
     MergeAnswer = JsonStringify(IF ObservedAt(MergeB) > ObservedAt(MergeA)
                                   THEN MergeB ELSE MergeA)

\* C2 witness: neither plays, the two observedAt are equal and the answer
\* is Spotify's.
C2_Witness ==
  /\ Merged /\ ~MergeA.isPlaying /\ ~MergeB.isPlaying
  /\ MergeA.success /\ MergeB.success
  /\ ObservedAt(MergeA) = ObservedAt(MergeB)
  /\ MergeAnswer = JsonStringify(MergeA)
  /\ MergeAnswer # JsonStringify(MergeB)

\* C3: when Spotify's result is not playing and Apple's is, the merged
\* answer is Apple's, even when Spotify's observedAt is the later one.
C3_ApplePlayingWins ==
  (Merged /\ ~MergeA.isPlaying /\ MergeB.isPlaying) =>
     MergeAnswer = JsonStringify(MergeB)

\* C3 witness: Spotify not playing with the later observedAt, Apple
\* playing, and the answer is Apple's.
C3_Witness ==
  /\ Merged /\ ~MergeA.isPlaying /\ MergeB.isPlaying
  /\ ObservedAt(MergeA) > ObservedAt(MergeB)
  /\ MergeAnswer = JsonStringify(MergeB)

\* Request r's getAppleMusicData returns in this step from its read of the
\* stored state (no put), its result waiting for Spotify's.
AppleReadReturns(r) == apple[r].pc = "fetch" /\ apple'[r].pc = "done"

\* The stored state the read of this step returns holds the song that
\* request r fetched.
SameSongStored(r) ==
  /\ IsDefined(appleState)
  /\ StateParse(appleState[1]).songId = apple'[r].song.id

\* C4: a new play (no stored state, or another song's) overwrites the
\* stored state with {song, now} and reports isPlaying = true with
\* observedAt = now: the instant stored and the instant reported are one
\* and the same.
C4_NewPlayStoresAndReportsNow ==
  [][\A r \in Requests :
       (apple[r].pc = "put" /\ apple'[r].pc = "done") =>
          /\ IsDefined(appleState')
          /\ StateParse(appleState'[1]).songId = apple[r].song.id
          /\ apple'[r].val[1].isPlaying
          /\ apple'[r].val[1].timeStamp = ToISOString(StateParse(appleState'[1]).cachedAt)]_vars

\* C5: the stored song is the fetched one and its cachedAt is later than
\* now - duration: the adapter reports isPlaying = true with the stored
\* cachedAt as observedAt.
C5_WithinWindowIsLive ==
  [][\A r \in Requests :
       ( /\ AppleReadReturns(r) /\ SameSongStored(r)
         /\ IsDefined(apple'[r].song.durationInMillis)
         /\ StateParse(appleState[1]).cachedAt > now - apple'[r].song.durationInMillis[1] )
       => /\ apple'[r].val[1].isPlaying
          /\ apple'[r].val[1].success
          /\ apple'[r].val[1].timeStamp = ToISOString(StateParse(appleState[1]).cachedAt)]_vars

\* C5 witness: a result waiting for Spotify's that is live on a stored
\* state older than now.
C5_Witness ==
  \E r \in Requests :
    /\ apple[r].pc = "done" /\ apple[r].val[1].isPlaying
    /\ IsDefined(appleState)
    /\ StateParse(appleState[1]).songId = apple[r].song.id
    /\ StateParse(appleState[1]).cachedAt < now
    /\ StateParse(appleState[1]).cachedAt > now - apple[r].song.durationInMillis[1]
    /\ apple[r].val[1].timeStamp = ToISOString(StateParse(appleState[1]).cachedAt)
    /\ ~IsDefined(apple[r].newState)

SpecTtl(duration) ==
  IF duration = <<>> THEN 120
  ELSE IF duration[1] \div 1000 < 600 THEN duration[1] \div 1000 ELSE 600

\* C7: every put into the result cache has the TTL of the spec for the
\* duration of the response it stores, never more than 600
\* (180000 -> 180, 900000 -> 600, no duration -> 120).
C7_TtlFromDuration ==
  \A r \in Requests :
    IsDefined(pendingPut[r]) =>
      LET d == JsonParse(pendingPut[r][1].value).duration
          ttl == pendingPut[r][1].expirationTtl
      IN  /\ ttl = SpecTtl(d)
          /\ ttl <= 600
          /\ d = <<180000>> => ttl = 180
          /\ d = <<900000>> => ttl = 600
          /\ d = <<>> => ttl = 120

\* C7 witness: a put of a response of 900000 ms with the TTL capped at 600.
C7_Witness ==
  \E r \in Requests :
    /\ IsDefined(pendingPut[r])
    /\ JsonParse(pendingPut[r][1].value).duration = <<900000>>
    /\ pendingPut[r][1].expirationTtl = 600

\* C8: a put into the result cache is made only for a response with
\* success = true, so the cache entry, when there is one, holds such a
\* response.
C8_OnlySuccessCached ==
  /\ \A r \in Requests :
       IsDefined(pendingPut[r]) => JsonParse(pendingPut[r][1].value).success
  /\ IsDefined(resultCache) => JsonParse(resultCache[1].value).success
  /\ Merged => (IsDefined(response[1].ttl) <=> JsonParse(MergeAnswer).success)
  /\ Merged /\ ~JsonParse(MergeAnswer).success => ~IsDefined(pendingPut[response[1].req])

\* C8 witness: a request answers with a failure and schedules no put, and
\* the cache entry of an earlier request is still there.
C8_Witness ==
  /\ Merged /\ ~JsonParse(MergeAnswer).success
  /\ ~IsDefined(pendingPut[response[1].req])
  /\ IsDefined(resultCache)

\* C9: every request with noCache=true ends with an X-Cache-Status: MISS
\* response whatever the cache holds, and schedules the put when its answer
\* is a success.
C9_BypassAlwaysMiss ==
  (IsDefined(response) /\ response[1].noCache) =>
     /\ response[1].outcome = "response"
     /\ response[1].cacheStatus = "MISS"
     /\ JsonParse(response[1].body[1]).success => IsDefined(pendingPut[response[1].req])

\* C10: no adapter raises: no request ends with the handler rejecting, and
\* every failed result is {success: false, isPlaying: false, error}.
C10_AdaptersNeverRaise ==
  /\ IsDefined(response) => response[1].outcome # "exception"
  /\ Merged =>
       \A x \in {MergeA, MergeB} :
         ~x.success => ~x.isPlaying /\ IsDefined(x.error)

\* C11: every request ends with an HTTP 200 response that carries a JSON
\* PlaybackState body; no request ends with another status or with the
\* handler raising.
C11_AlwaysHttp200 ==
  IsDefined(response) =>
     /\ response[1].status = 200
     /\ IsDefined(response[1].body)
     /\ response[1].cacheStatus \in {"HIT", "MISS"}

\* The state {success: true, isPlaying: false, observedAt: epoch start}.
EmptyPlayback ==
  [success |-> TRUE, isPlaying |-> FALSE, timeStamp |-> ToISOString(0),
   source |-> Undefined, duration |-> Undefined, title |-> Undefined,
   error |-> Undefined]

\* C12 as stated: when the currently-playing query answers 204, the
\* result of the Spotify adapter is {success: true, isPlaying: false,
\* observedAt: epoch start}.
C12_EmptyStatusReturned ==
  (Merged /\ response[1].nothingPlaying) => MergeA = EmptyPlayback

\* C12 amended: when the currently-playing query answers 204, the adapter
\* does not return the epoch-start state; it goes on to the recently-played
\* query, and what it returns is not playing and is either that query's
\* track (source Spotify, observedAt = played_at) or a failure state.
C12_EmptyStatusFallsBack ==
  (Merged /\ response[1].nothingPlaying) =>
     /\ MergeA # EmptyPlayback
     /\ ~MergeA.isPlaying
     /\ \/ /\ MergeA.success
           /\ MergeA.source = Some("Spotify")
           /\ \E t \in UpstreamTimes : MergeA.timeStamp = ToISOString(t)
        \/ /\ ~MergeA.success
           /\ IsDefined(MergeA.error)

\* C12 witness: the query answered 204 and the adapter returned the
\* recently played track.
C12_Witness ==
  /\ Merged /\ response[1].nothingPlaying
  /\ MergeA.success /\ MergeA.title = Some("SongA") /\ ~MergeA.isPlaying

\* The RESULT_CACHE.delete of request r lands in this step.
DeleteOf(r) == pendingDelete[r] /\ ~pendingDelete'[r]

\* The cache entry is the answer request r wrote: r has answered, its put
\* has landed, and no other request has arrived yet.
OwnAnswerCached(r) ==
  /\ phase[r] = "done" /\ ~IsDefined(pendingPut[r])
  /\ IsDefined(resultCache)
  /\ \A q \in Requests \ {r} : phase[q] = "new"

\* C13: the delete of a bypass request takes effect before its adapters
\* start, hence before its own cache write: it never lands after the
\* request's fresh answer has been written, removing it.
C13_DeleteBeforeOwnWrite ==
  [][\A r \in Requests : DeleteOf(r) => ~OwnAnswerCached(r)]_vars

\* Request r is received in this step.
Received(r) == phase[r] = "new" /\ phase'[r] # "new"

\* The result cache holds an entry that has not expired.
Unexpired == IsDefined(resultCache) /\ now < resultCache[1].expiresAt

\* C14: a request without noCache=true that finds an unexpired entry is
\* answered with exactly that entry and X-Cache-Status: HIT, starts no
\* adapter and writes neither store; adapters are started only after a
\* miss or with noCache=true.
C14_HitServesEntryOnly ==
  [][\A r \in Requests : Received(r) =>
       /\ phase'[r] = "done" =>
            /\ Unexpired
            /\ IsDefined(response') /\ response'[1].req = r
            /\ response'[1].cacheStatus = "HIT" /\ response'[1].status = 200
            /\ response'[1].body = Some(resultCache[1].value)
            /\ apple' = apple /\ apple[r].pc = "idle"
            /\ UNCHANGED <<resultCache, appleState, pendingPut, pendingDelete>>
       /\ phase'[r] = "running" =>
            /\ noCache'[r] \/ ~Unexpired
            /\ apple'[r].pc = "fetch"
            /\ ~IsDefined(response')]_vars

\* C14 witness: a request has just been answered from the cache with the
\* entry it holds, while the state of SourceMemory and the cache are those
\* an earlier request left.
C14_Witness ==
  /\ IsDefined(response) /\ response[1].cacheStatus = "HIT"
  /\ Unexpired /\ response[1].body = Some(resultCache[1].value)
  /\ apple[response[1].req].pc = "idle"
  /\ phase[response[1].req] = "done"
  /\ IsDefined(appleState)

\* C15: SourceMemory is written only by a request whose Apple fetch gave a
\* song that its read of the stored state found absent or different; a
\* request with any other outcome (same song stored, a failure, a cache
\* HIT) leaves it as it is, and it is never deleted.
C15_MemoryWrittenOnlyOnNewSong ==
  [][/\ IsDefined(appleState) => IsDefined(appleState')
     /\ appleState' # appleState =>
          \E r \in Requests :
            /\ apple[r].pc = "put" /\ apple'[r].pc # "put"
            /\ apple[r].song \in AppleTracks
            /\ appleState' = Some(StateStringify([songId |-> apple[r].song.id,
                                                   cachedAt |-> apple[r].newState[1].cachedAt]))
     /\ \A r \in Requests :
          /\ (apple[r].pc = "fetch" /\ apple'[r].pc = "put") =>
                /\ apple'[r].song \in AppleTracks
                /\ \/ ~IsDefined(appleState)
                   \/ StateParse(appleState[1]).songId # apple'[r].song.id
          /\ (apple[r].pc = "fetch" /\ apple'[r].pc \notin {"fetch", "put"}) =>
                appleState' = appleState
          /\ Received(r) => appleState' = appleState]_vars

\* C15 witness: one request wrote the stored state for a new song, and
\* another that polled the same song afterwards returned without a write.
C15_Witness ==
  \E r, q \in Requests :
    /\ r # q
    /\ apple[r].pc = "done" /\ IsDefined(apple[r].newState)
    /\ appleState = Some(StateStringify(apple[r].newState[1]))
    /\ apple[q].pc = "done" /\ ~IsDefined(apple[q].newState)
    /\ apple[q].song.id = apple[r].song.id
    /\ apple[q].val[1].success

\* C16: over all writes of SourceMemory, overlapping requests included, the
\* stored observedAt never decreases.
C16_ObservedAtMonotonic ==
  [][(IsDefined(appleState) /\ IsDefined(appleState')) =>
       StateParse(appleState'[1]).cachedAt >= StateParse(appleState[1]).cachedAt]_vars

\* C18: requests racing on a miss while Apple keeps returning one song are
\* idempotent on SourceMemory: once it holds the song, no request changes
\* its observedAt.
C18_RacingWritesIdempotent ==
  [][(/\ IsDefined(appleState) /\ IsDefined(appleState')
      /\ StateParse(appleState'[1]).songId = StateParse(appleState[1]).songId) =>
       StateParse(appleState'[1]).cachedAt = StateParse(appleState[1]).cachedAt]_vars

\* A PlaybackState that is playing has a title and is a success.
Resolved(x) == x.isPlaying => (IsDefined(x.title) /\ x.success)

C19_SuccessNotMasked ==
  (Merged /\ (MergeA.success \/ MergeB.success)) => JsonParse(MergeAnswer).success

\* The PlaybackState a response carries.
Served == JsonParse(response[1].body[1])

\* C20: every response, MISS or HIT, that reports an Apple Music track as
\* playing is served strictly before observedAt + durationMs.
C20_ServedWithinWindow ==
  ( /\ IsDefined(response) /\ IsDefined(response[1].body)
    /\ Served.source = Some("Apple Music") /\ Served.isPlaying
    /\ IsDefined(Served.duration) ) =>
     now < ObservedAt(Served) + Served.duration[1]

====
